---- MODULE Spec2Model ----
(***************************************************************************)
(* A model of the to-do list manager: the TodoList data model              *)
(* (src/src/models.rs), the TOML persistence codec (src/src/serialize.rs)  *)
(* and the command-line driver (src/src/main.rs).                          *)
(*                                                                         *)
(* Three specifications are given over the same variables:                 *)
(*   Spec       the program, from main() to process exit;                  *)
(*   SpecCore   the public TodoList operations called with any arguments;  *)
(*   SpecCodec  dump_todo_list / load_todo_list called on any list.        *)
(***************************************************************************)
EXTENDS Integers, Sequences, FiniteSets, TLC

VARIABLES
    pc,         \* position of the process (main / run_loop / input prompts / exit)
    file,       \* what is on disk at TODO_LIST_FILE_PATH
    todo_list,  \* ProgramInterface.todo_list: [items, last_updated]
    now,        \* the latest reading of the system clock (chrono::Utc::now)
    choice,     \* the integer last read by input_command (main.rs:79)
    command,    \* the Command (or CommandError) last produced / the last call
    ix_old,     \* input_command_arguments' local ix_old (main.rs:190)
    completed,  \* value returned by the last toggle_completion (main.rs:119)
    loaded,     \* Result returned by the last load_todo_list
    prev,       \* history: the TodoList as it was before the last command
    dumped,     \* history: the TodoList handed to the last successful dump
    reads,      \* history: number of fs::read_to_string calls
    writes      \* history: number of fs::write calls

vars == <<pc, file, todo_list, now, choice, command, ix_old, completed,
          loaded, prev, dumped, reads, writes>>

----------------------------------------------------------------------------
(* Bounds of the model *)

\* Largest number of items a list grows to.
MaxLen == 3
\* Clock readings and stored timestamps range over 0..MaxTime.
MaxTime == 2

Times == 0..MaxTime

----------------------------------------------------------------------------
(* Data model: models.rs *)

\* Descriptions are strings, modelled as sequences of characters.  The
\* characters include the two that TOML basic strings must escape.
Quote == "\""
Backslash == "\\"
Space == " "
Descriptions == { <<"a">>, <<Backslash, Quote>> }

TodoItem == [description : Descriptions, completed : BOOLEAN]

\* TodoItem { description, ..Default::default() }
NewItem(description) == [description |-> description, completed |-> FALSE]

TodoList(items, last_updated) == [items |-> items, last_updated |-> last_updated]

\* No TodoList has been constructed (before load, or load failed).
NoList == TodoList(<< >>, -1)

RECURSIVE SeqsUpTo(_, _)
SeqsUpTo(S, n) ==
    IF n = 0 THEN { << >> }
    ELSE LET shorter == SeqsUpTo(S, n - 1)
         IN  shorter \cup { Append(s, x) : s \in { q \in shorter : Len(q) = n - 1 }, x \in S }

AllLists == { TodoList(items, t) : items \in SeqsUpTo(TodoItem, MaxLen), t \in Times }

\* TodoList::len, is_empty, iter: read-only accessors.
len(tl) == Len(tl.items)
is_empty(tl) == tl.items = << >>
iter(tl) == tl.items

\* Vec::swap_remove in place of Vec::remove: the last element takes the
\* place of the removed one.
VecSwapRemove(v, index) ==
    IF index + 1 = Len(v) THEN SubSeq(v, 1, index)
    ELSE SubSeq(v, 1, index) \o << v[Len(v)] >> \o SubSeq(v, index + 2, Len(v) - 1)

\* Vec::remove(index): the vector without the element at 0-based index,
\* later elements shifted left.  Only defined for index < len.
VecRemove(v, index) == SubSeq(v, 1, index) \o SubSeq(v, index + 2, Len(v))

\* Vec::insert(index, x): later elements shifted right.  Only defined for
\* index <= len.
VecInsert(v, index, x) ==
    SubSeq(v, 1, index) \o << x >> \o SubSeq(v, index + 1, Len(v))

\* Result of a TodoList operation: the list it leaves behind, whether it
\* panicked, and the value it returned (toggle_completion only).
Returned(tl, value) == [list |-> tl, panicked |-> FALSE, ret |-> value]
Panicked(tl) == [list |-> tl, panicked |-> TRUE, ret |-> FALSE]

\* set_last_updated that leaves the timestamp alone.
set_last_updated_stale(tl, t) == tl

\* TodoList::set_last_updated with the clock reading t.
set_last_updated(tl, t) == [tl EXCEPT !.last_updated = t]

\* add_item that inserts at the front.
add_item_front(tl, item, t) ==
    [list |-> [items |-> << item >> \o tl.items, last_updated |-> t],
     panicked |-> FALSE, ret |-> FALSE]

\* TodoList::add_item
add_item(tl, item, t) ==
    Returned(set_last_updated([tl EXCEPT !.items = Append(@, item)], t), FALSE)

\* TodoList::remove_item: Vec::remove panics when index >= len.
remove_item(tl, index, t) ==
    IF index >= Len(tl.items) THEN Panicked(tl)
    ELSE Returned(set_last_updated([tl EXCEPT !.items = VecRemove(@, index)], t), FALSE)

\* move_item as a swap of the two positions.
move_item_swap(tl, ix_old_, ix_new, t) ==
    IF ix_old_ >= Len(tl.items) \/ ix_new >= Len(tl.items)
    THEN [list |-> tl, panicked |-> TRUE, ret |-> FALSE]
    ELSE [list |-> [items |-> [j \in 1..Len(tl.items) |->
                                  IF j = ix_old_ + 1 THEN tl.items[ix_new + 1]
                                  ELSE IF j = ix_new + 1 THEN tl.items[ix_old_ + 1]
                                  ELSE tl.items[j]],
                    last_updated |-> t],
          panicked |-> FALSE, ret |-> FALSE]

\* TodoList::move_item: Vec::remove, then Vec::insert on the shortened
\* vector (panics when ix_new > its length, after the removal was done).
move_item(tl, ix_old_, ix_new, t) ==
    IF ix_old_ >= Len(tl.items) THEN Panicked(tl)
    ELSE LET item == tl.items[ix_old_ + 1]
             shortened == VecRemove(tl.items, ix_old_)
         IN  IF ix_new > Len(shortened)
             THEN Panicked([tl EXCEPT !.items = shortened])
             ELSE Returned(set_last_updated(
                      [tl EXCEPT !.items = VecInsert(shortened, ix_new, item)], t), FALSE)

\* toggle_completion that always marks the item completed.
toggle_completion_set(tl, index, t) ==
    IF index >= Len(tl.items) THEN [list |-> tl, panicked |-> TRUE, ret |-> FALSE]
    ELSE [list |-> [items |-> [tl.items EXCEPT ![index + 1].completed = TRUE],
                    last_updated |-> t],
          panicked |-> FALSE, ret |-> TRUE]

\* TodoList::toggle_completion: indexing panics when index >= len.
toggle_completion(tl, index, t) ==
    IF index >= Len(tl.items) THEN Panicked(tl)
    ELSE LET updated == ~ tl.items[index + 1].completed
         IN  Returned(set_last_updated(
                 [tl EXCEPT !.items[index + 1].completed = updated], t), updated)

\* impl Default for TodoList
DefaultTodoList(t) == TodoList(<< >>, t)

----------------------------------------------------------------------------
(* Persistence codec: serialize.rs *)

\* What is on disk at the path: nothing, something that cannot be read
\* (permissions, a directory, invalid UTF-8), or a text document.
Absent == [kind |-> "absent", doc |-> << >>]
Unreadable == [kind |-> "unreadable", doc |-> << >>]
Text(doc) == [kind |-> "text", doc |-> doc]

\* A TOML document is a sequence of lines; a line is <<kind, key, value>>:
\*   <<"string", k, chars>>  k = "chars"    (chars still escaped)
\*   <<"bare", k, <<tok>>>>  k = tok        (true, false, [])
\*   <<"header", k, <<>>>>   [[k]]
StringLine(key, chars) == << "string", key, chars >>
BareLine(key, tok) == << "bare", key, << tok >> >>
HeaderLine(key) == << "header", key, << >> >>

\* Escaping that forgets the backslash.
EscapeCharQuoteOnly(c) ==
    IF c = "\"" THEN << "\\", "\"" >> ELSE << c >>

\* TOML basic string: the quote and the backslash are written escaped.
EscapeChar(c) ==
    IF c = Quote THEN << Backslash, Quote >>
    ELSE IF c = Backslash THEN << Backslash, Backslash >>
    ELSE << c >>

RECURSIVE EscapeStr(_)
EscapeStr(s) ==
    IF s = << >> THEN << >> ELSE EscapeChar(Head(s)) \o EscapeStr(Tail(s))

Parsed(v) == [ok |-> TRUE, val |-> v]
Unparsed == [ok |-> FALSE, val |-> << >>]

\* Reading a basic string back: a bare quote or a dangling or unknown
\* escape is a syntax error.
RECURSIVE UnescapeStr(_)
UnescapeStr(s) ==
    IF s = << >> THEN Parsed(<< >>)
    ELSE IF Head(s) = Quote THEN Unparsed
    ELSE IF Head(s) = Backslash
         THEN IF Len(s) < 2 \/ s[2] \notin {Quote, Backslash} THEN Unparsed
              ELSE LET rest == UnescapeStr(SubSeq(s, 3, Len(s)))
                   IN  IF rest.ok THEN Parsed(<< s[2] >> \o rest.val) ELSE Unparsed
    ELSE LET rest == UnescapeStr(Tail(s))
         IN  IF rest.ok THEN Parsed(<< Head(s) >> \o rest.val) ELSE Unparsed

\* chrono's serde form of DateTime<Utc>: zero-padded digits and the UTC
\* designator Z.
DigitChars == << "0", "1", "2", "3", "4", "5", "6", "7", "8", "9" >>
FormatTime(t) == << DigitChars[(t \div 10) + 1], DigitChars[(t % 10) + 1], "Z" >>

DigitValue(c) == CHOOSE d \in 0..9 : DigitChars[d + 1] = c
IsDigit(c) == \E d \in 0..9 : DigitChars[d + 1] = c
ParseTime(s) ==
    IF Len(s) = 3 /\ IsDigit(s[1]) /\ IsDigit(s[2]) /\ s[3] = "Z"
    THEN Parsed(10 * DigitValue(s[1]) + DigitValue(s[2]))
    ELSE Unparsed

\* derive(Serialize) for TodoItem, as one [[items]] table.
SerializeItem(item) ==
    << HeaderLine("items"),
       StringLine("description", EscapeStr(item.description)),
       BareLine("completed", IF item.completed THEN "true" ELSE "false") >>

RECURSIVE SerializeItems(_)
SerializeItems(items) ==
    IF items = << >> THEN << >>
    ELSE SerializeItem(Head(items)) \o SerializeItems(Tail(items))

\* toml::ser::to_string of a TodoList: plain values first, then the array
\* of tables; an empty Vec is the inline array [].
to_string(tl) ==
    IF tl.items = << >>
    THEN << BareLine("items", "[]"), StringLine("last_updated", FormatTime(tl.last_updated)) >>
    ELSE << StringLine("last_updated", FormatTime(tl.last_updated)) >> \o SerializeItems(tl.items)

\* State of the deserializer: ok, the timestamp read so far (<<>> or <<t>>),
\* whether key items was seen and how, the item tables read so far (each
\* field <<>> or <<value>>), and whether the current table is an item.
ParserStart ==
    [ok |-> TRUE, ts |-> << >>, items_seen |-> "no", items |-> << >>, in_item |-> FALSE]
ParserFail(acc) == [acc EXCEPT !.ok = FALSE]
EmptyItem == [description |-> << >>, completed |-> << >>]

ParseTopLevel(acc, kind, key, val) ==
    CASE kind = "header" ->
           IF key # "items" \/ acc.items_seen = "inline" THEN ParserFail(acc)
           ELSE [acc EXCEPT !.items_seen = "tables", !.in_item = TRUE,
                            !.items = Append(@, EmptyItem)]
      [] kind = "string" ->
           LET text == UnescapeStr(val)
           IN  IF ~ text.ok THEN ParserFail(acc)
               ELSE IF key = "last_updated"
                    THEN IF acc.ts # << >> \/ ~ ParseTime(text.val).ok THEN ParserFail(acc)
                         ELSE [acc EXCEPT !.ts = << ParseTime(text.val).val >>]
               ELSE IF key = "items" THEN ParserFail(acc)
               ELSE acc
      [] kind = "bare" ->
           IF val \notin { << "true" >>, << "false" >>, << "[]" >> } THEN ParserFail(acc)
           ELSE IF key = "items"
                THEN IF acc.items_seen # "no" \/ val # << "[]" >> THEN ParserFail(acc)
                     ELSE [acc EXCEPT !.items_seen = "inline"]
           ELSE IF key = "last_updated" THEN ParserFail(acc)
           ELSE acc
      [] OTHER -> ParserFail(acc)

ParseInItem(acc, kind, key, val) ==
    LET n == Len(acc.items)
    IN  CASE kind = "header" ->
               IF key # "items" THEN ParserFail(acc)
               ELSE [acc EXCEPT !.items = Append(@, EmptyItem)]
          [] kind = "string" ->
               LET text == UnescapeStr(val)
               IN  IF ~ text.ok THEN ParserFail(acc)
                   ELSE IF key = "description"
                        THEN IF acc.items[n].description # << >> THEN ParserFail(acc)
                             ELSE [acc EXCEPT !.items[n].description = << text.val >>]
                   ELSE IF key = "completed" THEN ParserFail(acc)
                   ELSE acc
          [] kind = "bare" ->
               IF val \notin { << "true" >>, << "false" >>, << "[]" >> } THEN ParserFail(acc)
               ELSE IF key = "completed"
                    THEN IF acc.items[n].completed # << >> \/ val = << "[]" >>
                         THEN ParserFail(acc)
                         ELSE [acc EXCEPT !.items[n].completed = << val = << "true" >> >>]
               ELSE IF key = "description" THEN ParserFail(acc)
               ELSE acc
          [] OTHER -> ParserFail(acc)

RECURSIVE ParseLines(_, _)
ParseLines(doc, acc) ==
    IF doc = << >> \/ ~ acc.ok THEN acc
    ELSE LET line == Head(doc)
         IN  ParseLines(Tail(doc),
                 IF acc.in_item THEN ParseInItem(acc, line[1], line[2], line[3])
                 ELSE ParseTopLevel(acc, line[1], line[2], line[3]))

\* toml::from_str::<TodoList>: every field of TodoList and of every
\* TodoItem is required; unknown keys are ignored.
from_str(doc) ==
    LET acc == ParseLines(doc, ParserStart)
    IN  IF /\ acc.ok
           /\ acc.ts # << >>
           /\ acc.items_seen # "no"
           /\ \A i \in 1..Len(acc.items) :
                  acc.items[i].description # << >> /\ acc.items[i].completed # << >>
        THEN Parsed(TodoList(
                 [i \in 1..Len(acc.items) |->
                     [description |-> acc.items[i].description[1],
                      completed |-> acc.items[i].completed[1]]],
                 acc.ts[1]))
        ELSE Unparsed

\* Result<TodoList, SerdeError> of load_todo_list.
NotLoaded == [tag |-> "None", kind |-> "", list |-> NoList]
LoadOk(tl) == [tag |-> "Ok", kind |-> "", list |-> tl]
LoadErr(tag, kind) == [tag |-> tag, kind |-> kind, list |-> NoList]

\* load_todo_list: fs::read_to_string, then toml::from_str.
load_todo_list(f) ==
    IF f.kind = "absent" THEN LoadErr("IO", "NotFound")
    ELSE IF f.kind = "unreadable" THEN LoadErr("IO", "Other")
    ELSE LET r == from_str(f.doc)
         IN  IF r.ok THEN LoadOk(r.val) ELSE LoadErr("Parse", "")

\* dump that appends to the file instead of overwriting it.
dump_todo_list_append(tl, f, outcome) ==
    CASE outcome = "ok" -> Text(f.doc \o to_string(tl))
      [] outcome = "open_failed" -> f
      [] outcome = "write_failed" -> Text(<< >>)

\* dump_todo_list: toml::ser::to_string, then fs::write.  fs::write can
\* fail before touching the file, or after truncating it.
dump_todo_list(tl, f, outcome) ==
    CASE outcome = "ok" -> Text(to_string(tl))
      [] outcome = "open_failed" -> f
      [] outcome = "write_failed" -> Text(<< >>)
WriteOutcomes == { "ok", "open_failed", "write_failed" }

----------------------------------------------------------------------------
(* Driver: main.rs *)

\* enum Command and enum CommandError, as one record shape.  tag "None"
\* stands for no command produced yet.
Cmd(tag, description, a, b) ==
    [tag |-> tag, description |-> description, a |-> a, b |-> b]
NoCommand == Cmd("None", << >>, 0, 0)
Add(description) == Cmd("Add", description, 0, 0)
Remove(index) == Cmd("Remove", << >>, index, 0)
ToggleCompletion(index) == Cmd("ToggleCompletion", << >>, index, 0)
Move(a, b) == Cmd("Move", << >>, a, b)
Help == Cmd("Help", << >>, 0, 0)
Quit == Cmd("Quit", << >>, 0, 0)
InsufficientItems(n) == Cmd("InsufficientItems", << >>, n, 0)
UnknownChoice == Cmd("UnknownChoice", << >>, 0, 0)

\* Lines the user types at "Describe your todo item: ".
TypedLines == { << "a" >>, << Space, "a", Space >>, << Backslash, Quote >> }
\* Lines typed at an integer prompt: a negative number stands for any line
\* that parse::<usize> rejects.
TypedChoices == -1..6
TypedIndexes == -1..(MaxLen + 1)

\* str::trim, as input_line applies it.
RECURSIVE TrimStart(_)
TrimStart(s) == IF s # << >> /\ Head(s) = Space THEN TrimStart(Tail(s)) ELSE s
RECURSIVE TrimEnd(_)
TrimEnd(s) ==
    IF s # << >> /\ s[Len(s)] = Space THEN TrimEnd(SubSeq(s, 1, Len(s) - 1)) ELSE s
input_line(typed) == TrimEnd(TrimStart(typed))

\* input_item_index that returns the 1-based number it read.
input_item_index_one_based(tl, n) ==
    IF n < 1 \/ n > Len(tl.items) THEN [valid |-> FALSE, index |-> 0]
    ELSE [valid |-> TRUE, index |-> n]

\* input_item_index on one typed integer: asks again unless 1 <= n <= length.
input_item_index(tl, n) ==
    IF n < 1 \/ n > len(tl) THEN [valid |-> FALSE, index |-> 0]
    ELSE [valid |-> TRUE, index |-> n - 1]

\* exec_command
exec_command(tl, cmd, t) ==
    CASE cmd.tag = "Add" -> add_item(tl, NewItem(cmd.description), t)
      [] cmd.tag = "Remove" -> remove_item(tl, cmd.a, t)
      [] cmd.tag = "ToggleCompletion" -> toggle_completion(tl, cmd.a, t)
      [] cmd.tag = "Move" -> move_item(tl, cmd.a, cmd.b, t)
      [] OTHER -> Returned(tl, FALSE)

Mutating == { "Add", "Remove", "ToggleCompletion", "Move" }

\* The step that makes a call: cmd is recorded, r is the call's result and
\* t the clock reading it took (now, when it read no clock).
Apply(cmd, r, t, back) ==
    /\ command' = cmd
    /\ prev' = todo_list
    /\ todo_list' = r.list
    /\ completed' = r.ret
    /\ ix_old' = 0
    /\ now' = IF r.panicked THEN now ELSE t
    /\ pc' = IF r.panicked THEN "panicked" ELSE back

\* One pass of run_loop's body once input_command has returned cmd:
\* exec_command, then print_todo_list (which only reads).
RunCommand(cmd, t) ==
    Apply(cmd, exec_command(todo_list, cmd, t), IF cmd.tag \in Mutating THEN t ELSE now,
          "select")

\* input_command_arguments returned Err(error): input_command asks again.
Refuse(error) ==
    /\ command' = error
    /\ prev' = todo_list
    /\ pc' = "select"
    /\ completed' = FALSE
    /\ ix_old' = 0
    /\ UNCHANGED <<todo_list, now>>

\* input_command_arguments goes on to ask for an argument.
AskArgument(next) ==
    /\ command' = NoCommand
    /\ prev' = todo_list
    /\ pc' = next
    /\ completed' = FALSE
    /\ ix_old' = 0
    /\ UNCHANGED <<todo_list, now>>

\* A file as an earlier run of the program left it.
SavedItem(i) ==
    [description |-> IF i % 2 = 1 THEN << "a" >> ELSE << Backslash, Quote >>,
     completed |-> i % 2 = 0]
SavedLists ==
    { TodoList([i \in 1..n |-> SavedItem(i)], IF n = MaxLen THEN MaxTime ELSE 0) :
        n \in {0, 1, MaxLen} }
\* Documents that do not decode into a TodoList.
MalformedDocs ==
    { << >>,
      << BareLine("items", "[]") >>,
      << BareLine("items", "[]"), StringLine("last_updated", << "x" >>) >>,
      << BareLine("items", "{"), StringLine("last_updated", FormatTime(0)) >>,
      << StringLine("last_updated", FormatTime(0)), HeaderLine("items"),
         StringLine("description", << Backslash >>), BareLine("completed", "true") >>,
      << StringLine("last_updated", FormatTime(0)), HeaderLine("items"),
         StringLine("description", << "a" >>) >> }
InitialFiles ==
    {Absent, Unreadable} \cup { Text(d) : d \in MalformedDocs }
        \cup { Text(to_string(tl)) : tl \in SavedLists }

Init ==
    /\ pc = "main"
    /\ file \in InitialFiles
    /\ todo_list = NoList
    /\ now = 0
    /\ choice = 0
    /\ command = NoCommand
    /\ ix_old = 0
    /\ completed = FALSE
    /\ loaded = NotLoaded
    /\ prev = NoList
    /\ dumped = NoList
    /\ reads = 0
    /\ writes = 0

\* main() that starts with the default list on any load error.
MainAnyErrorIsEmpty ==
    /\ pc = "main"
    /\ \E t \in now..MaxTime :
         LET r == load_todo_list(file)
         IN  /\ loaded' = r
             /\ reads' = reads + 1
             /\ IF r.tag = "Ok"
                THEN todo_list' = r.list /\ now' = now /\ pc' = "select"
                ELSE todo_list' = DefaultTodoList(t) /\ now' = t /\ pc' = "select"
    /\ UNCHANGED <<file, choice, command, ix_old, completed, prev, dumped, writes>>

\* main(), lines 261-270: load the list (an absent file gives the default
\* list, any other error panics), print it and the help message.
Main ==
    /\ pc = "main"
    /\ \E t \in now..MaxTime :
         LET r == load_todo_list(file)
         IN  /\ loaded' = r
             /\ reads' = reads + 1
             /\ IF r.tag = "Ok"
                THEN todo_list' = r.list /\ now' = now /\ pc' = "select"
                ELSE IF r.tag = "IO" /\ r.kind = "NotFound"
                THEN todo_list' = DefaultTodoList(t) /\ now' = t /\ pc' = "select"
                ELSE todo_list' = NoList /\ now' = now /\ pc' = "aborted"
    /\ UNCHANGED <<file, choice, command, ix_old, completed, prev, dumped, writes>>

\* input_integer read a line that is no usize: it asks again.
InvalidInteger ==
    /\ pc \in {"select", "remove_index", "toggle_index", "move_old", "move_new"}
    /\ \E typed \in TypedChoices : typed < 0
    /\ UNCHANGED vars

\* Choice 1: ask for the description.
ChooseAdd ==
    /\ pc = "select"
    /\ len(todo_list) < MaxLen
    /\ choice' = 1
    /\ AskArgument("describe")
    /\ UNCHANGED <<file, loaded, dumped, reads, writes>>

\* The description line was read: Command::Add is returned and executed.
InputDescription ==
    /\ pc = "describe"
    /\ \E typed \in TypedLines, t \in now..MaxTime :
         RunCommand(Add(input_line(typed)), t)
    /\ UNCHANGED <<file, choice, loaded, dumped, reads, writes>>

\* Choice 2.
ChooseRemove ==
    /\ pc = "select"
    /\ choice' = 2
    /\ IF len(todo_list) < 1 THEN Refuse(InsufficientItems(1))
       ELSE IF len(todo_list) = 1
       THEN \E t \in now..MaxTime : RunCommand(Remove(0), t)
       ELSE AskArgument("remove_index")
    /\ UNCHANGED <<file, loaded, dumped, reads, writes>>

InputRemoveIndex ==
    /\ pc = "remove_index"
    /\ \E n \in TypedIndexes, t \in now..MaxTime :
         LET r == input_item_index(todo_list, n)
         IN  /\ n >= 0
             /\ IF r.valid THEN RunCommand(Remove(r.index), t)
                ELSE UNCHANGED <<pc, todo_list, now, command, completed, prev, ix_old>>
    /\ UNCHANGED <<file, choice, loaded, dumped, reads, writes>>

\* Choice 3.
ChooseToggle ==
    /\ pc = "select"
    /\ choice' = 3
    /\ IF len(todo_list) < 1 THEN Refuse(InsufficientItems(1))
       ELSE IF len(todo_list) = 1
       THEN \E t \in now..MaxTime : RunCommand(ToggleCompletion(0), t)
       ELSE AskArgument("toggle_index")
    /\ UNCHANGED <<file, loaded, dumped, reads, writes>>

InputToggleIndex ==
    /\ pc = "toggle_index"
    /\ \E n \in TypedIndexes, t \in now..MaxTime :
         LET r == input_item_index(todo_list, n)
         IN  /\ n >= 0
             /\ IF r.valid THEN RunCommand(ToggleCompletion(r.index), t)
                ELSE UNCHANGED <<pc, todo_list, now, command, completed, prev, ix_old>>
    /\ UNCHANGED <<file, choice, loaded, dumped, reads, writes>>

\* Choice 4.
ChooseMove ==
    /\ pc = "select"
    /\ choice' = 4
    /\ IF len(todo_list) < 2 THEN Refuse(InsufficientItems(2))
       ELSE IF len(todo_list) = 2
       THEN \E t \in now..MaxTime : RunCommand(Move(0, 1), t)
       ELSE AskArgument("move_old")
    /\ UNCHANGED <<file, loaded, dumped, reads, writes>>

InputMoveOld ==
    /\ pc = "move_old"
    /\ \E n \in TypedIndexes :
         LET r == input_item_index(todo_list, n)
         IN  /\ n >= 0
             /\ IF r.valid THEN ix_old' = r.index /\ pc' = "move_new"
                ELSE UNCHANGED <<pc, ix_old>>
    /\ UNCHANGED <<file, todo_list, now, choice, command, completed, loaded, prev,
                   dumped, reads, writes>>

InputMoveNew ==
    /\ pc = "move_new"
    /\ \E n \in TypedIndexes, t \in now..MaxTime :
         LET r == input_item_index(todo_list, n)
         IN  /\ n >= 0
             /\ IF r.valid THEN RunCommand(Move(ix_old, r.index), t)
                ELSE UNCHANGED <<pc, todo_list, now, command, completed, prev, ix_old>>
    /\ UNCHANGED <<file, choice, loaded, dumped, reads, writes>>

\* Choice 5.
ChooseHelp ==
    /\ pc = "select"
    /\ choice' = 5
    /\ RunCommand(Help, now)
    /\ UNCHANGED <<file, loaded, dumped, reads, writes>>

\* Any other choice.
ChooseUnknown ==
    /\ pc = "select"
    /\ \E typed \in TypedChoices : typed > 5 /\ choice' = typed
    /\ Refuse(UnknownChoice)
    /\ UNCHANGED <<file, loaded, dumped, reads, writes>>

\* Choice 0: exec_command(Quit) does nothing, run_loop breaks, and main
\* dumps the list (lines 274-275); a failed dump panics.
ChooseQuit ==
    /\ pc = "select"
    /\ choice' = 0
    /\ command' = Quit
    /\ prev' = todo_list
    /\ \E outcome \in WriteOutcomes :
         /\ file' = dump_todo_list(todo_list, file, outcome)
         /\ dumped' = IF outcome = "ok" THEN todo_list ELSE dumped
         /\ pc' = IF outcome = "ok" THEN "exited" ELSE "save_failed"
    /\ writes' = writes + 1
    /\ UNCHANGED <<todo_list, now, ix_old, completed, loaded, reads>>

Next ==
    \/ Main
    \/ InvalidInteger
    \/ ChooseAdd
    \/ InputDescription
    \/ ChooseRemove
    \/ InputRemoveIndex
    \/ ChooseToggle
    \/ InputToggleIndex
    \/ ChooseMove
    \/ InputMoveOld
    \/ InputMoveNew
    \/ ChooseHelp
    \/ ChooseUnknown
    \/ ChooseQuit

Spec == Init /\ [][Next]_vars

----------------------------------------------------------------------------
(* The TodoList operations as a library: any caller, any arguments *)

\* Calls of the pub fns of models.rs, recorded in command.
CallAdd(item) == Cmd("add_item", item.description, IF item.completed THEN 1 ELSE 0, 0)
CallRemove(index) == Cmd("remove_item", << >>, index, 0)
CallMove(a, b) == Cmd("move_item", << >>, a, b)
CallToggle(index) == Cmd("toggle_completion", << >>, index, 0)
CallRead == Cmd("len", << >>, 0, 0)
CallDump == Cmd("dump_todo_list", << >>, 0, 0)
CallLoad == Cmd("load_todo_list", << >>, 0, 0)

\* Index arguments, in and out of bounds.
Indexes == 0..MaxLen

InitCore ==
    /\ pc = "api"
    /\ file = Absent
    /\ todo_list \in AllLists
    /\ now = 0
    /\ choice = 0
    /\ command = NoCommand
    /\ ix_old = 0
    /\ completed = FALSE
    /\ loaded = NotLoaded
    /\ prev = NoList
    /\ dumped = NoList
    /\ reads = 0
    /\ writes = 0

CoreUnchanged == UNCHANGED <<file, choice, loaded, dumped, reads, writes>>

CoreAdd ==
    /\ pc = "api"
    /\ len(todo_list) < MaxLen
    /\ \E item \in TodoItem, t \in now..MaxTime :
         Apply(CallAdd(item), add_item(todo_list, item, t), t, "api")
    /\ CoreUnchanged

CoreRemove ==
    /\ pc = "api"
    /\ \E index \in Indexes, t \in now..MaxTime :
         Apply(CallRemove(index), remove_item(todo_list, index, t), t, "api")
    /\ CoreUnchanged

CoreMove ==
    /\ pc = "api"
    /\ \E a \in Indexes, b \in Indexes, t \in now..MaxTime :
         Apply(CallMove(a, b), move_item(todo_list, a, b, t), t, "api")
    /\ CoreUnchanged

CoreToggle ==
    /\ pc = "api"
    /\ \E index \in Indexes, t \in now..MaxTime :
         Apply(CallToggle(index), toggle_completion(todo_list, index, t), t, "api")
    /\ CoreUnchanged

\* len / is_empty / iter
CoreRead ==
    /\ pc = "api"
    /\ len(todo_list) = Len(iter(todo_list))
    /\ is_empty(todo_list) = (len(todo_list) = 0)
    /\ Apply(CallRead, Returned(todo_list, FALSE), now, "api")
    /\ CoreUnchanged

\* ProgramInterface::exec_command(&Command::Add(description))
CoreExecAdd ==
    /\ pc = "api"
    /\ len(todo_list) < MaxLen
    /\ \E typed \in TypedLines, t \in now..MaxTime :
         LET cmd == Add(input_line(typed))
         IN  Apply(cmd, exec_command(todo_list, cmd, t), t, "api")
    /\ CoreUnchanged

NextCore == CoreAdd \/ CoreRemove \/ CoreMove \/ CoreToggle \/ CoreRead \/ CoreExecAdd

SpecCore == InitCore /\ [][NextCore]_vars

----------------------------------------------------------------------------
(* The codec as a library: dump and load of any list *)

InitCodec ==
    /\ pc = "codec"
    /\ file \in {Absent, Unreadable, Text(<< >>)}
    /\ todo_list \in AllLists
    /\ now = 0
    /\ choice = 0
    /\ command = NoCommand
    /\ ix_old = 0
    /\ completed = FALSE
    /\ loaded = NotLoaded
    /\ prev = NoList
    /\ dumped = NoList
    /\ reads = 0
    /\ writes = 0

\* dump_todo_list(&todo_list, path)
CodecDump ==
    /\ pc = "codec"
    /\ command' = CallDump
    /\ \E outcome \in WriteOutcomes :
         /\ file' = dump_todo_list(todo_list, file, outcome)
         /\ dumped' = CASE outcome = "ok" -> todo_list
                        [] outcome = "open_failed" -> dumped
                        [] outcome = "write_failed" -> NoList
    /\ UNCHANGED <<pc, todo_list, now, choice, ix_old, completed, loaded, prev, reads, writes>>

\* load_todo_list(path); the caller keeps the list it returns.
CodecLoad ==
    /\ pc = "codec"
    /\ command' = CallLoad
    /\ loaded' = load_todo_list(file)
    /\ prev' = todo_list
    /\ todo_list' = IF loaded'.tag = "Ok" THEN loaded'.list ELSE todo_list
    /\ UNCHANGED <<pc, file, now, choice, ix_old, completed, dumped, reads, writes>>

NextCodec == CodecDump \/ CodecLoad

SpecCodec == InitCodec /\ [][NextCodec]_vars

----------------------------------------------------------------------------
(* Properties *)

ItemA == [description |-> << "a" >>, completed |-> FALSE]
ItemB == [description |-> << "a" >>, completed |-> TRUE]
ItemC == [description |-> << Backslash, Quote >>, completed |-> FALSE]
ItemD == [description |-> << Backslash, Quote >>, completed |-> TRUE]

\* s without the element at (1-based) position k.
Others(s, k) == [j \in 1..(Len(s) - 1) |-> IF j < k THEN s[j] ELSE s[j + 1]]
\* How often x occurs in s.
Count(s, x) == Cardinality({ j \in 1..Len(s) : s[j] = x })

LoopPositions ==
    { "select", "describe", "remove_index", "toggle_index", "move_old", "move_new" }

\* C1: every Remove(i), ToggleCompletion(i) and Move(i_old, i_new) the driver
\* executes has its indices in bounds for the list at that moment (prev),
\* the out-of-bounds panic is never reached, and with too few items the
\* choice is refused and the list is left alone.
C1_DriverIndicesInBounds ==
    /\ pc # "panicked"
    /\ command.tag \in {"Remove", "ToggleCompletion"} => command.a < Len(prev.items)
    /\ command.tag = "Move" =>
           command.a < Len(prev.items) /\ command.b <= Len(prev.items) - 1
    /\ (choice \in {2, 3} /\ Len(prev.items) = 0) =>
           command = InsufficientItems(1) /\ todo_list = prev
    /\ (choice = 4 /\ Len(prev.items) < 2) =>
           command = InsufficientItems(2) /\ todo_list = prev

\* The user moved the first item of a list of more than two to its end.
C1_Witness ==
    /\ pc = "select"
    /\ command.tag = "Move"
    /\ Len(prev.items) > 2
    /\ command.a = 0
    /\ command.b = Len(prev.items) - 1

\* C2: move_item(index_old, index_new) with both indices in 0..len-1 puts
\* the moved item at index_new, keeps the relative order of all others, the
\* length and the multiset of items; move_item(i, i) changes nothing; the
\* last item moved to 0 shifts the others right; [a,b,c,d] with
\* move_item(0, 2) gives [b,c,a,d].
C2_MoveItem ==
    /\ (command.tag = "move_item" /\ command.a < Len(prev.items)
                                  /\ command.b < Len(prev.items)) =>
           /\ pc = "api"
           /\ Len(todo_list.items) = Len(prev.items)
           /\ todo_list.items[command.b + 1] = prev.items[command.a + 1]
           /\ Others(todo_list.items, command.b + 1) = Others(prev.items, command.a + 1)
           /\ \A x \in TodoItem : Count(todo_list.items, x) = Count(prev.items, x)
           /\ command.a = command.b => todo_list.items = prev.items
           /\ (command.a = Len(prev.items) - 1 /\ command.b = 0) =>
                  \A j \in 1..(Len(prev.items) - 1) : todo_list.items[j + 1] = prev.items[j]
    /\ move_item(TodoList(<< ItemA, ItemB, ItemC, ItemD >>, 0), 0, 2, 1).list.items
           = << ItemB, ItemC, ItemA, ItemD >>

\* The first of three distinct items was moved to the end.
C2_Witness ==
    /\ command = CallMove(0, 2)
    /\ pc = "api"
    /\ prev.items = << ItemA, ItemB, ItemC >>
    /\ todo_list.items = << ItemB, ItemC, ItemA >>

\* C3: a load that follows a successful dump of x returns Ok(x): the same
\* items in the same order, with the same description and completed flag,
\* and the same last_updated.
C3_RoundTrip ==
    (command = CallLoad /\ dumped # NoList) => loaded = LoadOk(dumped)

\* A full list holding a description with a backslash and a quote was
\* dumped and loaded.
C3_Witness ==
    /\ command = CallLoad
    /\ loaded.tag = "Ok"
    /\ Len(dumped.items) = MaxLen
    /\ \E i \in 1..Len(dumped.items) : dumped.items[i].description = << Backslash, Quote >>
    /\ \E i \in 1..Len(dumped.items) : dumped.items[i].completed

\* C3 also for the empty list.
C3_EmptyRoundTrip ==
    /\ command = CallLoad
    /\ loaded.tag = "Ok"
    /\ dumped # NoList
    /\ dumped.items = << >>

\* C4 as stated: after each mutating command last_updated is at least what
\* it was before, and no other command changes it.
C4_TimestampMonotone ==
    /\ command.tag \in Mutating => todo_list.last_updated >= prev.last_updated
    /\ (command.tag \notin Mutating /\ prev # NoList) =>
           todo_list.last_updated = prev.last_updated

\* C4 amended: a mutating command sets last_updated to the clock reading it
\* took, so last_updated does not decrease when it was not ahead of the
\* clock before the command; every other step of the loop leaves it alone.
C4_TimestampIsClockReading ==
    [][pc # "main" =>
          /\ command'.tag \in Mutating =>
                 /\ todo_list'.last_updated = now'
                 /\ todo_list.last_updated <= now =>
                        todo_list'.last_updated >= todo_list.last_updated
          /\ command'.tag \notin Mutating =>
                 todo_list'.last_updated = todo_list.last_updated]_vars

\* A loaded list was changed and its timestamp moved forward.
C4_Witness ==
    /\ loaded.tag = "Ok"
    /\ command.tag \in Mutating
    /\ prev.last_updated <= todo_list.last_updated
    /\ prev.last_updated # todo_list.last_updated

\* C5: an absent file gives the NotFound IO error and the driver goes on
\* with an empty list; any other load failure ends the process before the
\* command loop, with no list, no command, no dump, the file as it was.
C5_StartupErrors ==
    /\ (pc # "main" /\ writes = 0) =>
           ((loaded.tag = "IO" /\ loaded.kind = "NotFound") <=> file = Absent)
    /\ (loaded.tag = "IO" /\ loaded.kind = "NotFound") => pc # "aborted"
    /\ (loaded.tag = "IO" /\ loaded.kind = "NotFound" /\ prev = NoList) =>
           pc = "select" /\ todo_list = DefaultTodoList(now)
    /\ (pc # "main" /\ writes = 0 /\ file # Absent /\ ~ from_str(file.doc).ok) =>
           pc = "aborted"
    /\ pc = "aborted" =>
           /\ loaded.tag \in {"IO", "Parse"}
           /\ loaded.tag = "IO" => loaded.kind = "Other" /\ file = Unreadable
           /\ loaded.tag = "Parse" => file.kind = "text" /\ file.doc \in MalformedDocs
           /\ todo_list = NoList
           /\ command = NoCommand
           /\ writes = 0

\* The file held a document that does not decode, and the process ended.
C5_Witness ==
    /\ pc = "aborted"
    /\ loaded.tag = "Parse"
    /\ file.doc # << >>

\* C6: the file is read once, before any command; it is written once, by
\* the step that handles Quit; nothing is written while the loop runs; the
\* list is not changed by that step, and what is written is the list as the
\* last command before Quit left it.
C6_ReadOnceWriteOnce ==
    /\ pc = "main" => reads = 0 /\ writes = 0 /\ command = NoCommand
    /\ pc # "main" => reads = 1
    /\ pc \in LoopPositions \cup {"aborted", "panicked"} => writes = 0 /\ command # Quit
    /\ pc \in {"exited", "save_failed"} =>
           writes = 1 /\ command = Quit /\ todo_list = prev
    /\ pc = "exited" => file = Text(to_string(todo_list)) /\ dumped = todo_list
    /\ writes <= 1

\* A list that started empty was filled and saved on Quit.
C6_Witness ==
    /\ pc = "exited"
    /\ loaded.tag = "IO"
    /\ Len(todo_list.items) > 1

\* C7: remove_item(index) with index in 0..len-1 takes exactly the item at
\* index away: the count drops by 1, earlier items keep their position,
\* later items shift left by one; [a,b,c] with remove_item(1) gives [a,c].
C7_RemoveItem ==
    /\ (command.tag = "remove_item" /\ command.a < Len(prev.items)) =>
           /\ pc = "api"
           /\ Len(todo_list.items) = Len(prev.items) - 1
           /\ \A j \in 1..Len(todo_list.items) :
                  todo_list.items[j] = IF j <= command.a THEN prev.items[j]
                                       ELSE prev.items[j + 1]
    /\ remove_item(TodoList(<< ItemA, ItemB, ItemC >>, 0), 1, 1).list.items
           = << ItemA, ItemC >>

\* The first of three distinct items was removed.
C7_Witness ==
    /\ command = CallRemove(0)
    /\ pc = "api"
    /\ prev.items = << ItemA, ItemB, ItemC >>
    /\ todo_list.items = << ItemB, ItemC >>

\* C8: toggle_completion(i) with i in bounds returns the new completed flag
\* of item i, the negation of the old one, and changes nothing else; a
\* second toggle_completion(i) returns the opposite value and gives the
\* original items back.
C8_ToggleCompletion ==
    (command.tag = "toggle_completion" /\ command.a < Len(prev.items)) =>
        LET i == command.a + 1
            again == toggle_completion(todo_list, command.a, now)
        IN  /\ pc = "api"
            /\ completed = todo_list.items[i].completed
            /\ completed = ~ prev.items[i].completed
            /\ todo_list.items[i].description = prev.items[i].description
            /\ Len(todo_list.items) = Len(prev.items)
            /\ \A j \in 1..Len(prev.items) : j # i => todo_list.items[j] = prev.items[j]
            /\ ~ again.panicked
            /\ again.ret = ~ completed
            /\ again.list.items = prev.items

\* The middle item of a list was marked completed.
C8_Witness ==
    /\ command = CallToggle(1)
    /\ pc = "api"
    /\ Len(prev.items) = MaxLen
    /\ completed
    /\ ~ prev.items[2].completed

\* C9: add_item(i) succeeds, raises the count by 1, keeps every earlier item
\* in place and makes i the last item; the item the driver's Add command
\* creates has the command's description and completed = false.
C9_AddItem ==
    /\ command.tag \in {"add_item", "Add"} =>
           /\ pc = "api"
           /\ Len(todo_list.items) = Len(prev.items) + 1
           /\ \A j \in 1..Len(prev.items) : todo_list.items[j] = prev.items[j]
           /\ todo_list.items[Len(todo_list.items)].description = command.description
    /\ command.tag = "add_item" =>
           todo_list.items[Len(todo_list.items)].completed = (command.a = 1)
    /\ command.tag = "Add" => ~ todo_list.items[Len(todo_list.items)].completed

\* A completed item was appended to a list that held others.
C9_Witness ==
    /\ command = CallAdd(ItemD)
    /\ pc = "api"
    /\ prev.items = << ItemA, ItemB >>
    /\ todo_list.items = << ItemA, ItemB, ItemD >>

\* The driver's Add command appended an item.
C9_DriverAdd ==
    /\ command = Add(<< "a" >>)
    /\ prev.items = << ItemD >>
    /\ todo_list.items = << ItemD, ItemA >>

\* C10: an operation that fails as a precondition violation leaves items
\* and last_updated as they were before the call.
C10_NoPartialFailure ==
    pc = "panicked" => todo_list = prev

====
